---- MODULE Spec2Model ----
(***************************************************************************)
(* Streaming-response reconstruction of the misanthropic client:           *)
(*   - the frame decoder and the Event Stream (src/stream.rs),             *)
(*   - the stream views filter_rate_limit / deltas / text (FilterExt),     *)
(*   - Delta::merge, Block::merge_deltas and Content (prompt/message.rs).  *)
(*   - Message::apply_delta (response/message.rs),                         *)
(*   - the serde encoding of Event and the types it holds.                 *)
(*                                                                         *)
(* A JSON object is a record whose domain is the set of keys present in    *)
(* the document.  A string payload is a sequence of tokens, so that        *)
(* push_str is sequence concatenation.                                     *)
(***************************************************************************)
EXTENDS Integers, Sequences, FiniteSets, TLC

\* Longest transport script explored.
MaxFrames == 3

\* Most calls of Block::merge_deltas on one block.
MaxCalls == 2
\* Longest delta sequence passed to one call of Block::merge_deltas.
MaxDeltas == 2
\* Most events folded into one message content.
MaxEvents == 3

VARIABLES
    \* --- the Event Stream and its views
    transport,  \* stream.rs:229  the wrapped stream `S`: the items it will produce
    pos,        \* number of transport items already pulled by poll_next
    ended,      \* the wrapped stream returned None (end of stream)
    raw,        \* items yielded by Stream (stream.rs:276)
    vFilter,    \* items yielded by .filter_rate_limit()
    vDeltas,    \* items yielded by .deltas()
    vText,      \* items yielded by .text()
    vFilterText, \* items yielded by .filter_rate_limit().text()
    vFilterTwice, \* items yielded by .filter_rate_limit().filter_rate_limit()
    \* --- one Block receiving deltas
    block,       \* the Block (`&mut self` of merge_deltas)
    prevBlock,   \* the Block before the last call
    lastDeltas,  \* the delta sequence of the last call
    blockResult, \* the Result of the last call
    nCalls,      \* calls made
    allSingle,   \* every call so far passed exactly one Delta::Json
    fragments,   \* while allSingle: the fragments passed, concatenated
    \* --- one message Content receiving the events of a stream
    content,       \* the Content (`&mut self`)
    prevContent,   \* the Content before the last event
    contentResult, \* outcome of the operation the last event caused
    started,       \* indices for which ContentBlockStart was folded
    stopped,       \* indices for which ContentBlockStop was folded
    lastEvent,     \* the last event folded
    nEvents,       \* events folded
    \* --- one fold of Delta::merge
    mInputs,    \* the deltas supplied so far: the first `self`, then each `delta`
    mResult,    \* the Result of the last merge (Ok of the first `self` at the start)
    \* --- one frame through the decoder
    wire,       \* the transport item handed to the closure of Stream::new
    decoded,    \* the item the closure returned, once it has run
    kept,       \* what the filter_rate_limit closure returned for that item
    \* --- one response Message receiving MessageDeltas
    message,       \* the response::Message (`&mut self` of apply_delta)
    firstMessage,  \* the Message before any delta was applied
    appliedDeltas, \* the MessageDeltas applied so far, in order
    \* --- one Event serialized and decoded again
    rtEvent,    \* the constructed Event
    rtJson,     \* serde_json::to_value(&event), once serialized
    rtDecoded   \* serde_json::from_value::<Event>(json), once decoded

streamVars ==
    <<transport, pos, ended, raw, vFilter, vDeltas, vText, vFilterText, vFilterTwice>>
blockVars == <<block, prevBlock, lastDeltas, blockResult, nCalls, allSingle, fragments>>
contentVars == <<content, prevContent, contentResult, started, stopped, lastEvent, nEvents>>
mergeVars == <<mInputs, mResult>>
decodeVars == <<wire, decoded, kept>>
messageVars == <<message, firstMessage, appliedDeltas>>
roundTripVars == <<rtEvent, rtJson, rtDecoded>>
vars == <<streamVars, blockVars, contentVars, mergeVars, decodeVars,
          messageVars, roundTripVars>>

----------------------------------------------------------------------------
(* Results and options.                                                    *)

Ok(v) == [ok |-> TRUE, value |-> v]
Err(e) == [ok |-> FALSE, error |-> e]
Some(v) == [some |-> TRUE, value |-> v]
None == [some |-> FALSE]

Has(doc, key) == key \in DOMAIN doc
HasAll(doc, keys) == keys \subseteq DOMAIN doc

----------------------------------------------------------------------------
(* serde: Delta (stream.rs:83-102).  Internally tagged by "type";          *)
(* Text is named "text" (rename_all) with alias "text_delta"; Json is      *)
(* renamed "input_json_delta".                                             *)

DeltaText(t) == [variant |-> "Text", text |-> t]
DeltaJson(j) == [variant |-> "Json", partial_json |-> j]

\* Mutant of DeserializeDelta: the alias "text_delta" is not accepted.
DeserializeDeltaNoAlias(doc) ==
    IF ~Has(doc, "type") THEN Err("missing field type")
    ELSE IF doc.type = "text"
    THEN IF Has(doc, "text") THEN Ok(DeltaText(doc.text))
         ELSE Err("missing field text")
    ELSE IF doc.type = "input_json_delta"
    THEN IF Has(doc, "partial_json") THEN Ok(DeltaJson(doc.partial_json))
         ELSE Err("missing field partial_json")
    ELSE Err("unknown variant")

DeserializeDelta(doc) ==
    IF ~Has(doc, "type") THEN Err("missing field type")
    ELSE IF doc.type \in {"text", "text_delta"}
    THEN IF Has(doc, "text") THEN Ok(DeltaText(doc.text))
         ELSE Err("missing field text")
    ELSE IF doc.type = "input_json_delta"
    THEN IF Has(doc, "partial_json") THEN Ok(DeltaJson(doc.partial_json))
         ELSE Err("missing field partial_json")
    ELSE Err("unknown variant")

(* Block (prompt/message.rs:471-520).  cache_control is the Option of the  *)
(* prompt-caching feature: "None" or "Ephemeral".                          *)
BlockText(t) == [variant |-> "Text", text |-> t, cache_control |-> "None"]
BlockImage == [variant |-> "Image", image |-> "png", cache_control |-> "None"]
BlockToolUse(input) ==
    [variant |-> "ToolUse", id |-> "tool_123", name |-> "tool", input |-> input,
     cache_control |-> "None"]
BlockToolResult ==
    [variant |-> "ToolResult", tool_use_id |-> "tool_123", content |-> <<"result">>,
     is_error |-> FALSE, cache_control |-> "None"]

(* serde: Option<CacheControl> (prompt/message.rs:836-846): an absent key  *)
(* is None; CacheControl is tagged by "type" with the one variant          *)
(* "ephemeral".                                                            *)
DeserializeCacheControl(doc) ==
    IF ~Has(doc, "cache_control") THEN Ok("None")
    ELSE IF Has(doc.cache_control, "type") /\ doc.cache_control.type = "ephemeral"
    THEN Ok("Ephemeral")
    ELSE Err("cache_control")

(* serde: Block.  Internally tagged by "type", snake_case names, Text with *)
(* the alias "text_delta"; Image keeps its image under "source"; ToolUse   *)
(* and ToolResult flatten tool::Use and tool::Result.                      *)
DeserializeBlock(doc) ==
    IF ~Has(doc, "type") THEN Err("missing field type")
    ELSE IF ~DeserializeCacheControl(doc).ok THEN Err("cache_control")
    ELSE LET cache == DeserializeCacheControl(doc).value
         IN  IF doc.type \in {"text", "text_delta"}
             THEN IF Has(doc, "text")
                  THEN Ok([variant |-> "Text", text |-> doc.text,
                           cache_control |-> cache])
                  ELSE Err("missing field text")
             ELSE IF doc.type = "image"
             THEN IF Has(doc, "source")
                  THEN Ok([variant |-> "Image", image |-> doc.source,
                           cache_control |-> cache])
                  ELSE Err("missing field source")
             ELSE IF doc.type = "tool_use"
             THEN IF HasAll(doc, {"id", "name", "input"})
                  THEN Ok([variant |-> "ToolUse", id |-> doc.id, name |-> doc.name,
                           input |-> doc.input, cache_control |-> cache])
                  ELSE Err("missing field")
             ELSE IF doc.type = "tool_result"
             THEN IF HasAll(doc, {"tool_use_id", "content", "is_error"})
                  THEN Ok([variant |-> "ToolResult", tool_use_id |-> doc.tool_use_id,
                           content |-> doc.content, is_error |-> doc.is_error,
                           cache_control |-> cache])
                  ELSE Err("missing field")
             ELSE Err("unknown variant")

(* serde: an Option field: an absent key and a JSON null are both None.    *)
DeserializeOption(doc, key) ==
    IF Has(doc, key) /\ doc[key] # "null" THEN doc[key] ELSE "None"

(* serde: response::Message (response/message.rs:7-27).                    *)
DeserializeMessage(doc) ==
    IF HasAll(doc, {"id", "role", "content", "model", "usage"})
    THEN Ok([id |-> doc.id, role |-> doc.role, content |-> doc.content,
             model |-> doc.model,
             stop_reason |-> DeserializeOption(doc, "stop_reason"),
             stop_sequence |-> DeserializeOption(doc, "stop_sequence"),
             usage |-> doc.usage])
    ELSE Err("missing field")

(* serde: MessageDelta (stream.rs:172-183): every field is an Option.      *)
DeserializeMessageDelta(doc) ==
    Ok([stop_reason |-> DeserializeOption(doc, "stop_reason"),
        stop_sequence |-> DeserializeOption(doc, "stop_sequence"),
        usage |-> DeserializeOption(doc, "usage")])

(* serde: Event (stream.rs:20-62).  Internally tagged by "type",           *)
(* snake_case variant names; unknown keys are ignored.                     *)
DeserializeEvent(doc) ==
    IF ~Has(doc, "type") THEN Err("missing field type")
    ELSE IF doc.type = "ping" THEN Ok([variant |-> "Ping"])
    ELSE IF doc.type = "message_start"
    THEN IF Has(doc, "message") /\ DeserializeMessage(doc.message).ok
         THEN Ok([variant |-> "MessageStart",
                  message |-> DeserializeMessage(doc.message).value])
         ELSE Err("message_start")
    ELSE IF doc.type = "content_block_start"
    THEN IF HasAll(doc, {"index", "content_block"})
            /\ DeserializeBlock(doc.content_block).ok
         THEN Ok([variant |-> "ContentBlockStart", index |-> doc.index,
                  content_block |-> DeserializeBlock(doc.content_block).value])
         ELSE Err("content_block_start")
    ELSE IF doc.type = "content_block_delta"
    THEN IF HasAll(doc, {"index", "delta"}) /\ DeserializeDelta(doc.delta).ok
         THEN Ok([variant |-> "ContentBlockDelta", index |-> doc.index,
                  delta |-> DeserializeDelta(doc.delta).value])
         ELSE Err("content_block_delta")
    ELSE IF doc.type = "content_block_stop"
    THEN IF Has(doc, "index")
         THEN Ok([variant |-> "ContentBlockStop", index |-> doc.index])
         ELSE Err("content_block_stop")
    ELSE IF doc.type = "message_delta"
    THEN IF Has(doc, "delta") /\ DeserializeMessageDelta(doc.delta).ok
         THEN Ok([variant |-> "MessageDelta",
                  delta |-> DeserializeMessageDelta(doc.delta).value])
         ELSE Err("message_delta")
    ELSE IF doc.type = "message_stop" THEN Ok([variant |-> "MessageStop"])
    ELSE Err("unknown variant")

(* serde: AnthropicError (client.rs:291-324).  Internally tagged by        *)
(* "type"; RequestTooLarge and Unknown carry no rename and get the         *)
(* snake_case names "request_too_large" and "unknown"; Unknown needs the   *)
(* fields code and message.                                                *)
ErrorTagVariant ==
    [invalid_request_error |-> "InvalidRequest",
     authentication_error  |-> "Authentication",
     permission_error      |-> "Permission",
     not_found_error       |-> "NotFound",
     request_too_large     |-> "RequestTooLarge",
     rate_limit_error      |-> "RateLimit",
     api_error             |-> "API",
     overloaded_error      |-> "Overloaded"]

DeserializeAnthropicError(doc) ==
    IF ~Has(doc, "type") THEN Err("missing field type")
    ELSE IF doc.type \in DOMAIN ErrorTagVariant
    THEN IF Has(doc, "message")
         THEN Ok([variant |-> ErrorTagVariant[doc.type], message |-> doc.message])
         ELSE Err("missing field message")
    ELSE IF doc.type = "unknown"
    THEN IF HasAll(doc, {"code", "message"}) /\ doc.code \in 1..65535
         THEN Ok([variant |-> "Unknown", code |-> doc.code, message |-> doc.message])
         ELSE Err("missing field code")
    ELSE Err("unknown variant")

\* Mutant of DeserializeApiResult: the error envelope is tried before the Event.
DeserializeApiResultErrorFirst(doc) ==
    IF Has(doc, "error") /\ DeserializeAnthropicError(doc.error).ok
    THEN Ok([variant |-> "Error", error |-> DeserializeAnthropicError(doc.error).value])
    ELSE IF DeserializeEvent(doc).ok
    THEN Ok([variant |-> "Event", event |-> DeserializeEvent(doc).value])
    ELSE Err("data did not match any variant of untagged enum ApiResult")

(* serde: ApiResult (stream.rs:66-76).  Untagged: the variants are tried   *)
(* in declaration order, Event { #[serde(flatten)] event } first, then     *)
(* Error { error }; the first that deserializes wins.                      *)
DeserializeApiResult(doc) ==
    IF DeserializeEvent(doc).ok
    THEN Ok([variant |-> "Event", event |-> DeserializeEvent(doc).value])
    ELSE IF Has(doc, "error") /\ DeserializeAnthropicError(doc.error).ok
    THEN Ok([variant |-> "Error", error |-> DeserializeAnthropicError(doc.error).value])
    ELSE Err("data did not match any variant of untagged enum ApiResult")

----------------------------------------------------------------------------
(* serde: Serialize, as derived for Event and the types it holds.          *)

(* An Option field without skip_serializing_if: None is written as null.   *)
SerializeOption(v) == IF v = "None" THEN "null" ELSE v

(* cache_control carries skip_serializing_if = "Option::is_none"           *)
(* (prompt/message.rs:483-485, tool.rs:370-372).                           *)
SerializeCacheControl(doc, self) ==
    IF self.cache_control = "None" THEN doc
    ELSE doc @@ [cache_control |-> [type |-> "ephemeral"]]

\* Mutant of SerializeDelta: Delta::Json is written under its snake_case name.
SerializeDeltaJsonUnrenamed(self) ==
    IF self.variant = "Text"
    THEN [type |-> "text", text |-> self.text]
    ELSE [type |-> "json", partial_json |-> self.partial_json]

(* Delta (stream.rs:83-102): Text is written as "text" (the alias is read  *)
(* only), Json as "input_json_delta".                                      *)
SerializeDelta(self) ==
    IF self.variant = "Text"
    THEN [type |-> "text", text |-> self.text]
    ELSE [type |-> "input_json_delta", partial_json |-> self.partial_json]

(* Block (prompt/message.rs:471-520).                                      *)
SerializeBlock(self) ==
    CASE self.variant = "Text" ->
            SerializeCacheControl([type |-> "text", text |-> self.text], self)
      [] self.variant = "Image" ->
            SerializeCacheControl([type |-> "image", source |-> self.image], self)
      [] self.variant = "ToolUse" ->
            SerializeCacheControl([type |-> "tool_use", id |-> self.id,
                                   name |-> self.name, input |-> self.input], self)
      [] self.variant = "ToolResult" ->
            SerializeCacheControl([type |-> "tool_result",
                                   tool_use_id |-> self.tool_use_id,
                                   content |-> self.content,
                                   is_error |-> self.is_error], self)

(* response::Message (response/message.rs:7-27).                           *)
SerializeMessage(self) ==
    [id |-> self.id, role |-> self.role, content |-> self.content,
     model |-> self.model,
     stop_reason |-> SerializeOption(self.stop_reason),
     stop_sequence |-> SerializeOption(self.stop_sequence),
     usage |-> self.usage]

(* MessageDelta (stream.rs:172-183): every field carries                   *)
(* skip_serializing_if = "Option::is_none".                                *)
SerializeMessageDelta(self) ==
    [key \in {k \in DOMAIN self : self[k] # "None"} |-> self[key]]

(* Event (stream.rs:20-62): the variant's snake_case name under "type",    *)
(* then the variant's fields.                                              *)
SerializeEvent(self) ==
    CASE self.variant = "Ping" -> [type |-> "ping"]
      [] self.variant = "MessageStart" ->
            [type |-> "message_start", message |-> SerializeMessage(self.message)]
      [] self.variant = "ContentBlockStart" ->
            [type |-> "content_block_start", index |-> self.index,
             content_block |-> SerializeBlock(self.content_block)]
      [] self.variant = "ContentBlockDelta" ->
            [type |-> "content_block_delta", index |-> self.index,
             delta |-> SerializeDelta(self.delta)]
      [] self.variant = "ContentBlockStop" ->
            [type |-> "content_block_stop", index |-> self.index]
      [] self.variant = "MessageDelta" ->
            [type |-> "message_delta", delta |-> SerializeMessageDelta(self.delta)]
      [] self.variant = "MessageStop" -> [type |-> "message_stop"]

----------------------------------------------------------------------------
(* Stream items: Result<Event, Error> (stream.rs:185-211).                 *)

ErrorStream == [variant |-> "Stream"]
ErrorParse(event) == [variant |-> "Parse", event |-> event]
ErrorAnthropic(error, event) == [variant |-> "Anthropic", error |-> error, event |-> event]

(* The closure of Stream::new (stream.rs:240-258), applied to one item of  *)
(* the wrapped stream.                                                     *)
StreamMap(item) ==
    IF item.ok
    THEN LET r == DeserializeApiResult(item.value.data)
         IN  IF r.ok
             THEN IF r.value.variant = "Event"
                  THEN Ok(r.value.event)
                  ELSE Err(ErrorAnthropic(r.value.error, item.value))
             ELSE Err(ErrorParse(item.value))
    ELSE Err(ErrorStream)

\* Mutant of FilterRateLimit: only RateLimit is dropped, Overloaded is forwarded.
FilterRateLimitOnlyRateLimit(result) ==
    IF result.ok THEN Some(result)
    ELSE IF /\ result.error.variant = "Anthropic"
            /\ result.error.error.variant = "RateLimit"
    THEN None
    ELSE Some(result)

\* Mutant of FilterRateLimit: RateLimit is dropped and Overloaded is passed on
\* as RateLimit.
FilterRateLimitDowngradesOverloaded(result) ==
    IF result.ok THEN Some(result)
    ELSE IF /\ result.error.variant = "Anthropic"
            /\ result.error.error.variant = "RateLimit"
    THEN None
    ELSE IF /\ result.error.variant = "Anthropic"
            /\ result.error.error.variant = "Overloaded"
    THEN Some(Err(ErrorAnthropic([result.error.error EXCEPT !.variant = "RateLimit"],
                                 result.error.event)))
    ELSE Some(result)

\* Mutant of FilterRateLimit: every server-reported error is dropped.
FilterRateLimitAllAnthropic(result) ==
    IF result.ok THEN Some(result)
    ELSE IF result.error.variant = "Anthropic" THEN None
    ELSE Some(result)

(* FilterExt::filter_rate_limit closure (stream.rs:303-314).               *)
FilterRateLimit(result) ==
    IF result.ok THEN Some(result)
    ELSE IF /\ result.error.variant = "Anthropic"
            /\ result.error.error.variant \in {"Overloaded", "RateLimit"}
    THEN None
    ELSE Some(result)

\* Mutant of Deltas: the whole event is yielded, index included.
DeltasKeepsIndex(result) ==
    IF result.ok /\ result.value.variant = "ContentBlockDelta"
    THEN Some(Ok(result.value))
    ELSE None

(* FilterExt::deltas closure (stream.rs:320-325).                          *)
Deltas(result) ==
    IF result.ok /\ result.value.variant = "ContentBlockDelta"
    THEN Some(Ok(result.value.delta))
    ELSE None

\* Mutant of TextOfDelta: the payload of a Json delta is passed as text too.
TextOfDeltaAnyVariant(result) ==
    IF result.ok /\ result.value.variant = "Text" THEN Some(Ok(result.value.text))
    ELSE IF result.ok THEN Some(Ok(result.value.partial_json))
    ELSE None

(* FilterExt::text closure over the items of deltas() (stream.rs:330-335). *)
TextOfDelta(result) ==
    IF result.ok /\ result.value.variant = "Text"
    THEN Some(Ok(result.value.text))
    ELSE None

\* Mutant of Text: the text of a started Text block is yielded as well.
TextIncludesBlockStart(result) ==
    IF Deltas(result).some THEN TextOfDelta(Deltas(result).value)
    ELSE IF /\ result.ok
            /\ result.value.variant = "ContentBlockStart"
            /\ result.value.content_block.variant = "Text"
    THEN Some(Ok(result.value.content_block.text))
    ELSE None

(* FilterExt::text (stream.rs:329-336): deltas() then the text closure.    *)
Text(result) ==
    IF Deltas(result).some THEN TextOfDelta(Deltas(result).value) ELSE None

(* filter_map: the view yields the item when the closure returns Some.     *)
Yield(view, opt) == IF opt.some THEN Append(view, opt.value) ELSE view

----------------------------------------------------------------------------
(* Delta::merge (stream.rs:142-167).                                       *)

ContentMismatch(from, to) == [from |-> from, to |-> to]

\* Mutant of DeltaMerge: the incoming payload of a same-variant delta is lost.
DeltaMergeDropsIncoming(self, delta) ==
    IF self.variant = delta.variant
    THEN Ok(self)
    ELSE Err(ContentMismatch(delta,
                IF self.variant = "Text" THEN "Delta::Text" ELSE "Delta::Json"))

\* Mutant of DeltaMerge: the mismatch names the incoming delta's variant.
DeltaMergeNamesIncoming(self, delta) ==
    IF self.variant = "Text" /\ delta.variant = "Text"
    THEN Ok(DeltaText(self.text \o delta.text))
    ELSE IF self.variant = "Json" /\ delta.variant = "Json"
    THEN Ok(DeltaJson(self.partial_json \o delta.partial_json))
    ELSE Err(ContentMismatch(delta,
                IF delta.variant = "Text" THEN "Delta::Text" ELSE "Delta::Json"))

\* Mutant of DeltaMerge: the incoming payload is put in front of self's.
DeltaMergePrepends(self, delta) ==
    IF self.variant = "Text" /\ delta.variant = "Text"
    THEN Ok(DeltaText(delta.text \o self.text))
    ELSE IF self.variant = "Json" /\ delta.variant = "Json"
    THEN Ok(DeltaJson(delta.partial_json \o self.partial_json))
    ELSE Err(ContentMismatch(delta,
                IF self.variant = "Text" THEN "Delta::Text" ELSE "Delta::Json"))

DeltaMerge(self, delta) ==
    IF self.variant = "Text" /\ delta.variant = "Text"
    THEN Ok(DeltaText(self.text \o delta.text))
    ELSE IF self.variant = "Json" /\ delta.variant = "Json"
    THEN Ok(DeltaJson(self.partial_json \o delta.partial_json))
    ELSE Err(ContentMismatch(delta,
                IF self.variant = "Text" THEN "Delta::Text" ELSE "Delta::Json"))

(* Iterator::try_fold(acc, |acc, delta| acc.merge(delta))                  *)
(* (prompt/message.rs:574): stops at the first Err.                        *)
RECURSIVE TryFoldMerge(_, _)
TryFoldMerge(acc, deltas) ==
    IF deltas = <<>> THEN Ok(acc)
    ELSE LET r == DeltaMerge(acc, Head(deltas))
         IN  IF r.ok THEN TryFoldMerge(r.value, Tail(deltas)) ELSE r

----------------------------------------------------------------------------
(* serde_json::from_str::<serde_json::Value> (prompt/message.rs:594) on a  *)
(* token string over the alphabet  {  }  :  "key"  "value".  The JSON      *)
(* texts over this alphabet are the strings, {} and {string:value}; any    *)
(* other token string, and any trailing token, is a syntax error.          *)

JsonStringTokens == {"\"key\"", "\"value\""}
JsonString(tok) == [kind |-> "String", s |-> tok]
JsonObject(members) == [kind |-> "Object", members |-> members]

RECURSIVE ParseValue(_, _)
ParseValue(toks, i) ==
    IF i > Len(toks) THEN [ok |-> FALSE]
    ELSE IF toks[i] \in JsonStringTokens
    THEN [ok |-> TRUE, value |-> JsonString(toks[i]), next |-> i + 1]
    ELSE IF toks[i] = "{"
    THEN IF i + 1 <= Len(toks) /\ toks[i + 1] = "}"
         THEN [ok |-> TRUE, value |-> JsonObject(<<>>), next |-> i + 2]
         ELSE IF /\ i + 2 <= Len(toks)
                 /\ toks[i + 1] \in JsonStringTokens
                 /\ toks[i + 2] = ":"
         THEN LET v == ParseValue(toks, i + 3)
              IN  IF v.ok /\ v.next <= Len(toks) /\ toks[v.next] = "}"
                  THEN [ok |-> TRUE,
                        value |-> JsonObject(<<[key |-> toks[i + 1], value |-> v.value]>>),
                        next |-> v.next + 1]
                  ELSE [ok |-> FALSE]
         ELSE [ok |-> FALSE]
    ELSE [ok |-> FALSE]

ParseJson(toks) ==
    LET r == ParseValue(toks, 1)
    IN  IF r.ok /\ r.next = Len(toks) + 1 THEN Ok(r.value)
        ELSE Err("syntax error")

----------------------------------------------------------------------------
(* DeltaError (stream.rs:126-138).                                         *)

DeltaErrorContentMismatch(error) == [variant |-> "ContentMismatch", error |-> error]
DeltaErrorOutOfBounds(index, max) ==
    [variant |-> "OutOfBounds", error |-> [index |-> index, max |-> max]]
DeltaErrorParse(error) == [variant |-> "Parse", error |-> error]

\* The unit of Result<(), DeltaError>.
Unit == "()"

\* Mutant of MergeDeltas: the merged text replaces the text of the block.
MergeDeltasOverwritesText(self, deltas) ==
    IF deltas = <<>> THEN [block |-> self, result |-> Ok(Unit)]
    ELSE LET folded == TryFoldMerge(Head(deltas), Tail(deltas))
         IN  IF ~folded.ok
             THEN [block |-> self,
                   result |-> Err(DeltaErrorContentMismatch(folded.error))]
             ELSE LET acc == folded.value
                  IN  IF self.variant = "Text" /\ acc.variant = "Text"
                      THEN [block |-> [self EXCEPT !.text = acc.text],
                            result |-> Ok(Unit)]
                      ELSE IF self.variant = "ToolUse" /\ acc.variant = "Json"
                      THEN LET parsed == ParseJson(acc.partial_json)
                           IN  IF parsed.ok
                               THEN [block |-> [self EXCEPT !.input = parsed.value],
                                     result |-> Ok(Unit)]
                               ELSE [block |-> self,
                                     result |-> Err(DeltaErrorParse(parsed.error))]
                      ELSE [block |-> self,
                            result |-> Err(DeltaErrorContentMismatch(
                                ContentMismatch(acc, "Block::" \o self.variant)))]

\* Mutant of MergeDeltas: a delta that does not fit the block is ignored.
MergeDeltasIgnoresMismatch(self, deltas) ==
    IF deltas = <<>> THEN [block |-> self, result |-> Ok(Unit)]
    ELSE LET folded == TryFoldMerge(Head(deltas), Tail(deltas))
         IN  IF ~folded.ok
             THEN [block |-> self,
                   result |-> Err(DeltaErrorContentMismatch(folded.error))]
             ELSE LET acc == folded.value
                  IN  IF self.variant = "Text" /\ acc.variant = "Text"
                      THEN [block |-> [self EXCEPT !.text = @ \o acc.text],
                            result |-> Ok(Unit)]
                      ELSE IF self.variant = "ToolUse" /\ acc.variant = "Json"
                      THEN LET parsed == ParseJson(acc.partial_json)
                           IN  IF parsed.ok
                               THEN [block |-> [self EXCEPT !.input = parsed.value],
                                     result |-> Ok(Unit)]
                               ELSE [block |-> self,
                                     result |-> Err(DeltaErrorParse(parsed.error))]
                      ELSE [block |-> self, result |-> Ok(Unit)]

\* Mutant of MergeDeltas: a block that accepts no delta rejects the empty sequence.
MergeDeltasRejectsEmpty(self, deltas) ==
    IF deltas = <<>>
    THEN IF self.variant \in {"Text", "ToolUse"}
         THEN [block |-> self, result |-> Ok(Unit)]
         ELSE [block |-> self,
               result |-> Err(DeltaErrorContentMismatch(
                   ContentMismatch(DeltaText(<<>>), "Block::" \o self.variant)))]
    ELSE LET folded == TryFoldMerge(Head(deltas), Tail(deltas))
         IN  IF ~folded.ok
             THEN [block |-> self,
                   result |-> Err(DeltaErrorContentMismatch(folded.error))]
             ELSE LET acc == folded.value
                  IN  IF self.variant = "Text" /\ acc.variant = "Text"
                      THEN [block |-> [self EXCEPT !.text = @ \o acc.text],
                            result |-> Ok(Unit)]
                      ELSE IF self.variant = "ToolUse" /\ acc.variant = "Json"
                      THEN LET parsed == ParseJson(acc.partial_json)
                           IN  IF parsed.ok
                               THEN [block |-> [self EXCEPT !.input = parsed.value],
                                     result |-> Ok(Unit)]
                               ELSE [block |-> self,
                                     result |-> Err(DeltaErrorParse(parsed.error))]
                      ELSE [block |-> self,
                            result |-> Err(DeltaErrorContentMismatch(
                                ContentMismatch(acc, "Block::" \o self.variant)))]

\* Mutant of MergeDeltas: the parsed object is merged into the previous input.
MergeDeltasMergesInput(self, deltas) ==
    IF deltas = <<>> THEN [block |-> self, result |-> Ok(Unit)]
    ELSE LET folded == TryFoldMerge(Head(deltas), Tail(deltas))
         IN  IF ~folded.ok
             THEN [block |-> self,
                   result |-> Err(DeltaErrorContentMismatch(folded.error))]
             ELSE LET acc == folded.value
                  IN  IF self.variant = "Text" /\ acc.variant = "Text"
                      THEN [block |-> [self EXCEPT !.text = @ \o acc.text],
                            result |-> Ok(Unit)]
                      ELSE IF self.variant = "ToolUse" /\ acc.variant = "Json"
                      THEN LET parsed == ParseJson(acc.partial_json)
                           IN  IF parsed.ok
                               THEN [block |-> [self EXCEPT !.input =
                                                IF @.kind = "Object" /\ parsed.value.kind = "Object"
                                                THEN JsonObject(@.members \o parsed.value.members)
                                                ELSE parsed.value],
                                     result |-> Ok(Unit)]
                               ELSE [block |-> self,
                                     result |-> Err(DeltaErrorParse(parsed.error))]
                      ELSE [block |-> self,
                            result |-> Err(DeltaErrorContentMismatch(
                                ContentMismatch(acc, "Block::" \o self.variant)))]

\* Mutant of MergeDeltas: the deltas before a conflicting one are applied.
MergeDeltasAppliesLeading(self, deltas) ==
    IF deltas = <<>> THEN [block |-> self, result |-> Ok(Unit)]
    ELSE LET folded == TryFoldMerge(Head(deltas), Tail(deltas))
         IN  IF ~folded.ok
             THEN [block |-> IF self.variant = "Text" /\ Head(deltas).variant = "Text"
                             THEN [self EXCEPT !.text = @ \o Head(deltas).text]
                             ELSE self,
                   result |-> Err(DeltaErrorContentMismatch(folded.error))]
             ELSE LET acc == folded.value
                  IN  IF self.variant = "Text" /\ acc.variant = "Text"
                      THEN [block |-> [self EXCEPT !.text = @ \o acc.text],
                            result |-> Ok(Unit)]
                      ELSE IF self.variant = "ToolUse" /\ acc.variant = "Json"
                      THEN LET parsed == ParseJson(acc.partial_json)
                           IN  IF parsed.ok
                               THEN [block |-> [self EXCEPT !.input = parsed.value],
                                     result |-> Ok(Unit)]
                               ELSE [block |-> self,
                                     result |-> Err(DeltaErrorParse(parsed.error))]
                      ELSE [block |-> self,
                            result |-> Err(DeltaErrorContentMismatch(
                                ContentMismatch(acc, "Block::" \o self.variant)))]

(* Block::merge_deltas (prompt/message.rs:559-614).  The value is the      *)
(* block after the call and the Result returned.                           *)
MergeDeltas(self, deltas) ==
    IF deltas = <<>> THEN [block |-> self, result |-> Ok(Unit)]
    ELSE LET folded == TryFoldMerge(Head(deltas), Tail(deltas))
         IN  IF ~folded.ok
             THEN [block |-> self,
                   result |-> Err(DeltaErrorContentMismatch(folded.error))]
             ELSE LET acc == folded.value
                  IN  IF self.variant = "Text" /\ acc.variant = "Text"
                      THEN [block |-> [self EXCEPT !.text = @ \o acc.text],
                            result |-> Ok(Unit)]
                      ELSE IF self.variant = "ToolUse" /\ acc.variant = "Json"
                      THEN LET parsed == ParseJson(acc.partial_json)
                           IN  IF parsed.ok
                               THEN [block |-> [self EXCEPT !.input = parsed.value],
                                     result |-> Ok(Unit)]
                               ELSE [block |-> self,
                                     result |-> Err(DeltaErrorParse(parsed.error))]
                      ELSE [block |-> self,
                            result |-> Err(DeltaErrorContentMismatch(
                                ContentMismatch(acc, "Block::" \o self.variant)))]

----------------------------------------------------------------------------
(* Content (prompt/message.rs:203-364).                                    *)

SinglePart(t) == [variant |-> "SinglePart", text |-> t]
MultiPart(parts) == [variant |-> "MultiPart", parts |-> parts]

\* A panic of the calling thread.
Panic == [ok |-> FALSE, panic |-> TRUE]
IsPanic(result) == Has(result, "panic")

(* Content::len (prompt/message.rs:232-237).                               *)
ContentLen(self) ==
    IF self.variant = "SinglePart" THEN 1 ELSE Len(self.parts)

(* Content::unwrap_single_part (prompt/message.rs:252-265), called on a    *)
(* SinglePart.                                                             *)
UnwrapSinglePart(self) == BlockText(self.text)

\* Mutant of ContentPush: the text of a SinglePart is lost by the promotion.
ContentPushDropsOldText(self, part) ==
    IF self.variant = "SinglePart"
    THEN MultiPart(<<part>>)
    ELSE MultiPart(Append(self.parts, part))

(* Content::push (prompt/message.rs:272-289).                              *)
ContentPush(self, part) ==
    IF self.variant = "SinglePart"
    THEN MultiPart(<<UnwrapSinglePart(self), part>>)
    ELSE MultiPart(Append(self.parts, part))

(* The promotion of push_delta (prompt/message.rs:349-351): SinglePart is  *)
(* swapped for MultiPart(vec![]) and the old text pushed as a Text block. *)
Promote(self) ==
    IF self.variant = "SinglePart"
    THEN MultiPart(<<UnwrapSinglePart(self)>>)
    ELSE self

(* Block::cache (prompt/message.rs:621-636): every variant gets the        *)
(* breakpoint Some(CacheControl::Ephemeral).                               *)
BlockCache(self) == [self EXCEPT !.cache_control = "Ephemeral"]

(* Content::cache (prompt/message.rs:296-309): a SinglePart is promoted,   *)
(* then the final block, if there is one, is marked.                       *)
ContentCache(self) ==
    LET promoted == Promote(self)
        n == Len(promoted.parts)
    IN  IF n = 0 THEN promoted
        ELSE MultiPart([promoted.parts EXCEPT ![n] = BlockCache(@)])

(* Content::last (prompt/message.rs:313-318).                              *)
ContentLast(self) ==
    IF self.variant = "SinglePart" THEN None
    ELSE IF self.parts = <<>> THEN None
    ELSE Some(self.parts[Len(self.parts)])

\* Mutant of ContentPushDelta: content left with one Text block is demoted
\* to SinglePart.
ContentPushDeltaDemotes(self, delta) ==
    LET promoted == Promote(self)
        n == Len(promoted.parts)
    IN  IF n = 0 THEN [content |-> promoted, result |-> Panic]
        ELSE LET m == MergeDeltas(promoted.parts[n], <<delta>>)
             IN  [content |-> IF n = 1 /\ m.block.variant = "Text"
                              THEN SinglePart(m.block.text)
                              ELSE MultiPart([promoted.parts EXCEPT ![n] = m.block]),
                  result |-> m.result]

\* Mutant of ContentPushDelta: the delta is applied to the first block.
ContentPushDeltaTargetsFirst(self, delta) ==
    LET promoted == Promote(self)
        n == Len(promoted.parts)
    IN  IF n = 0 THEN [content |-> promoted, result |-> Panic]
        ELSE LET m == MergeDeltas(promoted.parts[1], <<delta>>)
             IN  [content |-> MultiPart([promoted.parts EXCEPT ![1] = m.block]),
                  result |-> m.result]

(* Content::push_delta (prompt/message.rs:344-363).  The value is the      *)
(* content after the call and its outcome: the Result returned, or the     *)
(* panic of `parts.last_mut().unwrap()` on an empty MultiPart.             *)
ContentPushDelta(self, delta) ==
    LET promoted == Promote(self)
        n == Len(promoted.parts)
    IN  IF n = 0 THEN [content |-> promoted, result |-> Panic]
        ELSE LET m == MergeDeltas(promoted.parts[n], <<delta>>)
             IN  [content |-> MultiPart([promoted.parts EXCEPT ![n] = m.block]),
                  result |-> m.result]

----------------------------------------------------------------------------
(* Transport items: Result<eventsource_stream::Event, EventStreamError>.   *)
(* The data documents are those of the wire protocol (stream.rs:350-353    *)
(* and the API's SSE transcript), plus malformed and ambiguous ones.       *)

SseEvent(name, doc) == Ok([event |-> name, data |-> doc])
TransportError == Err("transport")

ErrorDoc(tag) == [type |-> tag, message |-> "msg"]

FramePing == SseEvent("ping", [type |-> "ping"])
FrameMessageStart ==
    SseEvent("message_start",
             [type |-> "message_start",
              message |-> [id |-> "msg_1", role |-> "assistant", content |-> <<>>,
                           model |-> "claude", usage |-> "usage0"]])
FrameBlockStart ==
    SseEvent("content_block_start",
             [type |-> "content_block_start", index |-> 0,
              content_block |-> [type |-> "text", text |-> <<>>]])
FrameTextDelta(t) ==
    SseEvent("content_block_delta",
             [type |-> "content_block_delta", index |-> 0,
              delta |-> [type |-> "text_delta", text |-> <<t>>]])
FrameJsonDelta ==
    SseEvent("content_block_delta",
             [type |-> "content_block_delta", index |-> 1,
              delta |-> [type |-> "input_json_delta", partial_json |-> <<"{", "\"key\"", ":">>]])
FrameBlockStop ==
    SseEvent("content_block_stop", [type |-> "content_block_stop", index |-> 0])
FrameMessageDelta ==
    SseEvent("message_delta",
             [type |-> "message_delta",
              delta |-> [stop_reason |-> "end_turn", usage |-> "usage1"]])
FrameMessageStop == SseEvent("message_stop", [type |-> "message_stop"])
\* The API's error frame: {"type":"error","error":{...}}.
FrameError(tag) == SseEvent("error", [type |-> "error", error |-> ErrorDoc(tag)])
\* An error envelope without a "type" key.
FrameBareError(tag) == SseEvent("error", [error |-> ErrorDoc(tag)])
\* A document that is both an event and an error envelope.
FramePingWithError ==
    SseEvent("ping", [type |-> "ping", error |-> ErrorDoc("overloaded_error")])
\* A document that is neither: a content_block_delta without its delta.
FrameMalformed ==
    SseEvent("content_block_delta", [type |-> "content_block_delta", index |-> 0])

TransportItems ==
    { FramePing, FrameMessageStart, FrameBlockStart,
      FrameTextDelta("Certainly! I"), FrameTextDelta(" can"), FrameJsonDelta,
      FrameBlockStop, FrameMessageDelta, FrameMessageStop,
      FrameError("overloaded_error"), FrameBareError("rate_limit_error"),
      FrameError("invalid_request_error"), FrameError("billing_error"),
      FramePingWithError, FrameMalformed, TransportError }

SeqsUpTo(S, n) == UNION { [1..k -> S] : k \in 0..n }

----------------------------------------------------------------------------
(* The Event Stream and its views.                                         *)

StreamInit ==
    /\ transport \in SeqsUpTo(TransportItems, MaxFrames)
    /\ pos = 0
    /\ ended = FALSE
    /\ raw = <<>>
    /\ vFilter = <<>>
    /\ vDeltas = <<>>
    /\ vText = <<>>
    /\ vFilterText = <<>>
    /\ vFilterTwice = <<>>

\* Mutant of PollNext: a frame that fails to decode is skipped.
PollNextSkipsMalformed ==
    /\ ~ended
    /\ pos < Len(transport)
    /\ LET item == StreamMap(transport[pos + 1])
           keep == ~(~item.ok /\ item.error.variant = "Parse")
       IN  /\ raw' = IF keep THEN Append(raw, item) ELSE raw
           /\ vFilter' = IF keep THEN Yield(vFilter, FilterRateLimit(item)) ELSE vFilter
           /\ vDeltas' = Yield(vDeltas, Deltas(item))
           /\ vText' = Yield(vText, Text(item))
           /\ vFilterText' =
                IF FilterRateLimit(item).some
                THEN Yield(vFilterText, Text(FilterRateLimit(item).value))
                ELSE vFilterText
           /\ vFilterTwice' =
                IF keep /\ FilterRateLimit(item).some
                THEN Yield(vFilterTwice, FilterRateLimit(FilterRateLimit(item).value))
                ELSE vFilterTwice
    /\ pos' = pos + 1
    /\ UNCHANGED <<transport, ended, blockVars, contentVars, mergeVars, decodeVars, messageVars, roundTripVars>>

\* Mutant of PollNext: keepalive pings are swallowed by the Stream.
PollNextSwallowsPing ==
    /\ ~ended
    /\ pos < Len(transport)
    /\ LET item == StreamMap(transport[pos + 1])
           keep == ~(item.ok /\ item.value.variant = "Ping")
       IN  /\ raw' = IF keep THEN Append(raw, item) ELSE raw
           /\ vFilter' = IF keep THEN Yield(vFilter, FilterRateLimit(item)) ELSE vFilter
           /\ vDeltas' = Yield(vDeltas, Deltas(item))
           /\ vText' = Yield(vText, Text(item))
           /\ vFilterText' =
                IF FilterRateLimit(item).some
                THEN Yield(vFilterText, Text(FilterRateLimit(item).value))
                ELSE vFilterText
           /\ vFilterTwice' =
                IF keep /\ FilterRateLimit(item).some
                THEN Yield(vFilterTwice, FilterRateLimit(FilterRateLimit(item).value))
                ELSE vFilterTwice
    /\ pos' = pos + 1
    /\ UNCHANGED <<transport, ended, blockVars, contentVars, mergeVars, decodeVars, messageVars, roundTripVars>>

(* Stream::poll_next (stream.rs:276-281) when the wrapped stream has an    *)
(* item: the item is mapped and yielded, and every view sees it.           *)
PollNext ==
    /\ ~ended
    /\ pos < Len(transport)
    /\ LET item == StreamMap(transport[pos + 1])
       IN  /\ raw' = Append(raw, item)
           /\ vFilter' = Yield(vFilter, FilterRateLimit(item))
           /\ vDeltas' = Yield(vDeltas, Deltas(item))
           /\ vText' = Yield(vText, Text(item))
           /\ vFilterText' =
                IF FilterRateLimit(item).some
                THEN Yield(vFilterText, Text(FilterRateLimit(item).value))
                ELSE vFilterText
           /\ vFilterTwice' =
                IF FilterRateLimit(item).some
                THEN Yield(vFilterTwice, FilterRateLimit(FilterRateLimit(item).value))
                ELSE vFilterTwice
    /\ pos' = pos + 1
    /\ UNCHANGED <<transport, ended, blockVars, contentVars, mergeVars, decodeVars, messageVars, roundTripVars>>

\* Mutant of PollEnd: the Stream is fused by a transport failure.
PollEndAfterStreamError ==
    /\ ~ended
    /\ \/ pos = Len(transport)
       \/ \E i \in 1..Len(raw) : raw[i] = Err(ErrorStream)
    /\ ended' = TRUE
    /\ UNCHANGED <<transport, pos, raw, vFilter, vDeltas, vText, vFilterText, vFilterTwice>>
    /\ UNCHANGED <<blockVars, contentVars, mergeVars, decodeVars, messageVars, roundTripVars>>

(* Stream::poll_next when the wrapped stream is exhausted: None.           *)
PollEnd ==
    /\ ~ended
    /\ pos = Len(transport)
    /\ ended' = TRUE
    /\ UNCHANGED <<transport, pos, raw, vFilter, vDeltas, vText, vFilterText, vFilterTwice>>
    /\ UNCHANGED <<blockVars, contentVars, mergeVars, decodeVars, messageVars, roundTripVars>>

\* The stream is not in use.
StreamIdle ==
    /\ transport = <<>>
    /\ pos = 0
    /\ ended = TRUE
    /\ raw = <<>>
    /\ vFilter = <<>>
    /\ vDeltas = <<>>
    /\ vText = <<>>
    /\ vFilterText = <<>>
    /\ vFilterTwice = <<>>

----------------------------------------------------------------------------
(* One Block and the calls of Block::merge_deltas on it.                   *)

\* The deltas a call may pass (stream.rs:428-455, prompt/message.rs:1105-1132).
DeltaInputs ==
    { DeltaText(<<"Certainly! I">>), DeltaText(<<" can">>),
      DeltaJson(<<"{", "\"key\"", ":">>), DeltaJson(<<"\"value\"", "}">>),
      DeltaJson(<<"{", "}">>) }

\* The blocks a call may be made on.
BlockInputs ==
    { BlockText(<<>>), BlockText(<<"Hello, world!">>),
      BlockToolUse(JsonObject(<<>>)), BlockImage, BlockToolResult }

BlockInit ==
    /\ block \in BlockInputs
    /\ prevBlock = block
    /\ lastDeltas = <<>>
    /\ blockResult = Ok(Unit)
    /\ nCalls = 0
    /\ allSingle = TRUE
    /\ fragments = <<>>

(* block.merge_deltas(deltas)                                              *)
CallMergeDeltas ==
    /\ nCalls < MaxCalls
    /\ \E deltas \in SeqsUpTo(DeltaInputs, MaxDeltas) :
          LET m == MergeDeltas(block, deltas)
              single == allSingle /\ Len(deltas) = 1 /\ deltas[1].variant = "Json"
          IN  /\ block' = m.block
              /\ blockResult' = m.result
              /\ prevBlock' = block
              /\ lastDeltas' = deltas
              /\ allSingle' = single
              /\ fragments' = IF single THEN fragments \o deltas[1].partial_json ELSE <<>>
    /\ nCalls' = nCalls + 1
    /\ UNCHANGED <<streamVars, contentVars, mergeVars, decodeVars, messageVars, roundTripVars>>

\* The block is not in use.
BlockIdle ==
    /\ block = BlockImage
    /\ prevBlock = BlockImage
    /\ lastDeltas = <<>>
    /\ blockResult = Ok(Unit)
    /\ nCalls = 0
    /\ allSingle = TRUE
    /\ fragments = <<>>

----------------------------------------------------------------------------
(* A message Content and the events of one response folded into it with    *)
(* the operations Content offers: push for ContentBlockStart, push_delta   *)
(* for ContentBlockDelta (stream.rs:25-26, 31-53).                         *)

NoEvent == [variant |-> "None"]

ContentInit ==
    /\ content \in {MultiPart(<<>>), SinglePart(<<"Hello, world!">>)}
    /\ prevContent = content
    /\ contentResult = Ok(Unit)
    /\ started = {}
    /\ stopped = {}
    /\ lastEvent = NoEvent
    /\ nEvents = 0

\* The thread is alive and the bound on events is not reached.
CanFold == nEvents < MaxEvents /\ ~IsPanic(contentResult)

(* Event::ContentBlockStart { index, content_block }: the block is pushed. *)
(* The server numbers the blocks of a message from 0 upwards.              *)
OnContentBlockStart ==
    /\ CanFold
    /\ \E b \in {BlockText(<<>>), BlockToolUse(JsonObject(<<>>)), BlockImage, BlockToolResult} :
          LET index == Cardinality(started)
          IN  /\ content' = ContentPush(content, b)
              /\ started' = started \cup {index}
              /\ lastEvent' = [variant |-> "ContentBlockStart", index |-> index,
                               content_block |-> b]
    /\ prevContent' = content
    /\ contentResult' = Ok(Unit)
    /\ nEvents' = nEvents + 1
    /\ UNCHANGED <<stopped, streamVars, blockVars, mergeVars, decodeVars, messageVars, roundTripVars>>

(* Event::ContentBlockDelta { index, delta }: content.push_delta(delta).   *)
(* push_delta takes no index.                                              *)
OnContentBlockDelta ==
    /\ CanFold
    /\ \E index \in 0..Cardinality(started), delta \in DeltaInputs :
          LET r == ContentPushDelta(content, delta)
          IN  /\ content' = r.content
              /\ contentResult' = r.result
              /\ lastEvent' = [variant |-> "ContentBlockDelta", index |-> index,
                               delta |-> delta]
    /\ prevContent' = content
    /\ nEvents' = nEvents + 1
    /\ UNCHANGED <<started, stopped, streamVars, blockVars, mergeVars, decodeVars, messageVars, roundTripVars>>

(* Event::ContentBlockStop { index }: no operation of Content is called.   *)
OnContentBlockStop ==
    /\ CanFold
    /\ \E index \in started \ stopped :
          /\ stopped' = stopped \cup {index}
          /\ lastEvent' = [variant |-> "ContentBlockStop", index |-> index]
    /\ prevContent' = content
    /\ contentResult' = Ok(Unit)
    /\ nEvents' = nEvents + 1
    /\ UNCHANGED <<content, started, streamVars, blockVars, mergeVars, decodeVars, messageVars, roundTripVars>>

(* content.cache(), called by the application between events.             *)
CallCache ==
    /\ CanFold
    /\ content' = ContentCache(content)
    /\ prevContent' = content
    /\ contentResult' = Ok(Unit)
    /\ lastEvent' = [variant |-> "Cache"]
    /\ nEvents' = nEvents + 1
    /\ UNCHANGED <<started, stopped, streamVars, blockVars, mergeVars, decodeVars, messageVars, roundTripVars>>

\* The content is not in use.
ContentIdle ==
    /\ content = MultiPart(<<>>)
    /\ prevContent = MultiPart(<<>>)
    /\ contentResult = Ok(Unit)
    /\ started = {}
    /\ stopped = {}
    /\ lastEvent = NoEvent
    /\ nEvents = 0

----------------------------------------------------------------------------
(* One left fold of Delta::merge: self.merge(d1)?.merge(d2)? ...           *)
(* (stream.rs:142-167, as the test at stream.rs:431-440 chains it).        *)

\* Most merges chained onto one delta.
MaxMerges == 3

MergeInit ==
    /\ mInputs \in { <<d>> : d \in DeltaInputs }
    /\ mResult = Ok(mInputs[1])

(* acc.merge(delta): merge consumes self, so the chain stops at an Err.    *)
CallDeltaMerge ==
    /\ mResult.ok
    /\ Len(mInputs) <= MaxMerges
    /\ \E delta \in DeltaInputs :
          /\ mResult' = DeltaMerge(mResult.value, delta)
          /\ mInputs' = Append(mInputs, delta)
    /\ UNCHANGED <<streamVars, blockVars, contentVars, decodeVars, messageVars, roundTripVars>>

\* No fold is in progress.
MergeIdle ==
    /\ mInputs = <<>>
    /\ mResult = Ok(DeltaText(<<>>))

----------------------------------------------------------------------------
(* One transport item through the closure of Stream::new and then through  *)
(* the closure of filter_rate_limit.                                       *)

\* The error kinds a server may send: the eight the client names, one it
\* does not, and the serde name of AnthropicError::Unknown.
WireErrorTags == DOMAIN ErrorTagVariant \cup {"billing_error", "unknown"}

WireBlockStart(index, blockDoc) ==
    SseEvent("content_block_start",
             [type |-> "content_block_start", index |-> index,
              content_block |-> blockDoc])
WireBlockDelta(index, deltaDoc) ==
    SseEvent("content_block_delta",
             [type |-> "content_block_delta", index |-> index, delta |-> deltaDoc])
WireBlockStop(index) ==
    SseEvent("content_block_stop", [type |-> "content_block_stop", index |-> index])

\* content_block documents: text, tool_use, and a text without its text.
WireBlockDocs ==
    { [type |-> "text", text |-> <<>>],
      [type |-> "tool_use", id |-> "toolu_1", name |-> "tool",
       input |-> JsonObject(<<>>)],
      [type |-> "text"] }

\* delta documents: text_delta, its alias text, input_json_delta, a
\* text_delta without its text, and a delta type the client does not name.
WireDeltaDocs ==
    { [type |-> "text_delta", text |-> <<"Certainly! I">>],
      [type |-> "text_delta", text |-> <<" can">>],
      [type |-> "text", text |-> <<" do">>],
      [type |-> "input_json_delta", partial_json |-> <<"{", "\"key\"", ":">>],
      [type |-> "text_delta"],
      [type |-> "thinking_delta", thinking |-> <<"hmm">>] }

WireFrames ==
    { FramePing, FrameMessageStart, FrameMessageDelta, FrameMessageStop,
      FramePingWithError, FrameMalformed, TransportError,
      SseEvent("message_start", [type |-> "message_start"]),
      SseEvent("message_delta", [type |-> "message_delta"]),
      SseEvent("future_event", [type |-> "future_event"]),
      SseEvent("error", [error |-> [type |-> "unknown", code |-> 529,
                                    message |-> "msg"]]) }
    \cup { WireBlockStart(i, b) : i \in {0, 1}, b \in WireBlockDocs }
    \cup { WireBlockDelta(i, d) : i \in {0, 1}, d \in WireDeltaDocs }
    \cup { WireBlockStop(i) : i \in {0, 1} }
    \cup { FrameError(tag) : tag \in WireErrorTags }
    \cup { FrameBareError(tag) : tag \in WireErrorTags }
    \cup { SseEvent("error", [error |-> [type |-> tag]]) : tag \in WireErrorTags }

DecodeInit ==
    /\ wire \in WireFrames
    /\ decoded = None
    /\ kept = None

(* The closure of Stream::new runs on the item (stream.rs:240-258) and the *)
(* closure of filter_rate_limit on its result (stream.rs:303-314).         *)
DecodeFrame ==
    /\ ~decoded.some
    /\ decoded' = Some(StreamMap(wire))
    /\ kept' = FilterRateLimit(StreamMap(wire))
    /\ UNCHANGED <<wire, streamVars, blockVars, contentVars, mergeVars, messageVars, roundTripVars>>

\* No frame is being decoded.
DecodeIdle ==
    /\ wire = TransportError
    /\ decoded = None
    /\ kept = None

----------------------------------------------------------------------------
(* A response Message and the MessageDeltas applied to it                  *)
(* (response/message.rs:7-37, stream.rs:170-183).  An absent Option is     *)
(* "None", as in DeserializeMessageDelta.                                  *)

\* Most MessageDeltas applied to one message.
MaxApplies == 2

ResponseMessage(parts, stopReason, usage) ==
    [id |-> "msg_013Zva2CMHLNnXjNJJKqJ2EF", role |-> "assistant",
     content |-> parts, model |-> "claude-3-5-sonnet-20240620",
     stop_reason |-> stopReason, stop_sequence |-> "None", usage |-> usage]

MessageDelta(stopReason, stopSequence, usage) ==
    [stop_reason |-> stopReason, stop_sequence |-> stopSequence, usage |-> usage]

\* Mutant of ApplyDelta: the content is reset with the metadata.
ApplyDeltaClearsContent(self, delta) ==
    [self EXCEPT !.stop_reason = delta.stop_reason,
                 !.stop_sequence = delta.stop_sequence,
                 !.usage = IF delta.usage # "None" THEN delta.usage ELSE @,
                 !.content = MultiPart(<<>>)]

\* Mutant of ApplyDelta: an absent stop reason or stop sequence keeps the old one.
ApplyDeltaKeepsStopReason(self, delta) ==
    [self EXCEPT !.stop_reason = IF delta.stop_reason # "None" THEN delta.stop_reason ELSE @,
                 !.stop_sequence = IF delta.stop_sequence # "None" THEN delta.stop_sequence ELSE @,
                 !.usage = IF delta.usage # "None" THEN delta.usage ELSE @]

(* Message::apply_delta (response/message.rs:30-37).                       *)
ApplyDelta(self, delta) ==
    [self EXCEPT !.stop_reason = delta.stop_reason,
                 !.stop_sequence = delta.stop_sequence,
                 !.usage = IF delta.usage # "None" THEN delta.usage ELSE @]

\* The messages apply_delta is called on: the message of a MessageStart,
\* with empty content, and the complete message of the test
\* (response/message.rs:131-161).
MessageInputs ==
    { ResponseMessage(MultiPart(<<>>), "None", "usage0"),
      ResponseMessage(MultiPart(<<BlockText(<<"Hi! My name is Claude.">>)>>),
                      "end_turn", "usage0") }

\* The deltas a stream may carry.
MessageDeltaInputs ==
    { MessageDelta(sr, ss, u) :
        sr \in {"None", "end_turn", "max_tokens"},
        ss \in {"None", "sequence"},
        u \in {"None", "usage1", "usage2"} }

MessageInit ==
    /\ message \in MessageInputs
    /\ firstMessage = message
    /\ appliedDeltas = <<>>

(* message.apply_delta(delta)                                              *)
CallApplyDelta ==
    /\ Len(appliedDeltas) < MaxApplies
    /\ \E delta \in MessageDeltaInputs :
          /\ message' = ApplyDelta(message, delta)
          /\ appliedDeltas' = Append(appliedDeltas, delta)
    /\ UNCHANGED <<firstMessage, streamVars, blockVars, contentVars, mergeVars,
                   decodeVars, roundTripVars>>

\* No message is being assembled.
MessageIdle ==
    /\ message = ResponseMessage(MultiPart(<<>>), "None", "usage0")
    /\ firstMessage = message
    /\ appliedDeltas = <<>>

----------------------------------------------------------------------------
(* One constructed Event serialized to JSON and decoded again.             *)

\* The messages of a MessageStart: metadata and empty content.
StartMessages ==
    { [id |-> "msg_1", role |-> "assistant", content |-> <<>>, model |-> "claude",
       stop_reason |-> sr, stop_sequence |-> "None", usage |-> "usage0"] :
        sr \in {"None", "end_turn"} }

\* Constructed Events: every variant, every Block variant, with and without
\* a cache breakpoint, every delta and every MessageDelta.
EventValues ==
    { [variant |-> "Ping"], [variant |-> "MessageStop"] }
    \cup { [variant |-> "MessageStart", message |-> m] : m \in StartMessages }
    \cup { [variant |-> "ContentBlockStart", index |-> i, content_block |-> b] :
             i \in {0, 1},
             b \in BlockInputs \cup { BlockCache(BlockText(<<"Hello, world!">>)),
                                      BlockCache(BlockToolUse(JsonObject(<<>>))) } }
    \cup { [variant |-> "ContentBlockDelta", index |-> i, delta |-> d] :
             i \in {0, 1}, d \in DeltaInputs }
    \cup { [variant |-> "ContentBlockStop", index |-> i] : i \in {0, 1} }
    \cup { [variant |-> "MessageDelta", delta |-> d] : d \in MessageDeltaInputs }

RoundTripInit ==
    /\ rtEvent \in EventValues
    /\ rtJson = None
    /\ rtDecoded = None

(* serde_json::to_value(&event)                                            *)
ToValue ==
    /\ ~rtJson.some
    /\ rtJson' = Some(SerializeEvent(rtEvent))
    /\ UNCHANGED <<rtEvent, rtDecoded, streamVars, blockVars, contentVars,
                   mergeVars, decodeVars, messageVars>>

(* serde_json::from_value::<Event>(json)                                   *)
FromValue ==
    /\ rtJson.some
    /\ ~rtDecoded.some
    /\ rtDecoded' = Some(DeserializeEvent(rtJson.value))
    /\ UNCHANGED <<rtEvent, rtJson, streamVars, blockVars, contentVars,
                   mergeVars, decodeVars, messageVars>>

\* No event is being round-tripped.
RoundTripIdle ==
    /\ rtEvent = [variant |-> "Ping"]
    /\ rtJson = None
    /\ rtDecoded = None

----------------------------------------------------------------------------
(* Specifications.                                                         *)

\* The Event Stream and its views over every transport script.
Init == StreamInit /\ BlockIdle /\ ContentIdle /\ MergeIdle /\ DecodeIdle
    /\ MessageIdle /\ RoundTripIdle
Next == PollNext \/ PollEnd
Spec == Init /\ [][Next]_vars

\* Block::merge_deltas over every block and delta sequence.
InitBlock == BlockInit /\ StreamIdle /\ ContentIdle /\ MergeIdle /\ DecodeIdle
    /\ MessageIdle /\ RoundTripIdle
NextBlock == CallMergeDeltas
SpecBlock == InitBlock /\ [][NextBlock]_vars

\* The events of a response folded into a Content.
InitContent == ContentInit /\ StreamIdle /\ BlockIdle /\ MergeIdle /\ DecodeIdle
    /\ MessageIdle /\ RoundTripIdle
NextContent ==
    OnContentBlockStart \/ OnContentBlockDelta \/ OnContentBlockStop \/ CallCache
SpecContent == InitContent /\ [][NextContent]_vars

\* Left folds of Delta::merge over every delta sequence.
InitMerge == MergeInit /\ StreamIdle /\ BlockIdle /\ ContentIdle /\ DecodeIdle
    /\ MessageIdle /\ RoundTripIdle
NextMerge == CallDeltaMerge
SpecMerge == InitMerge /\ [][NextMerge]_vars

\* Every wire frame through the decoder and the transient-error filter.
InitDecode == DecodeInit /\ StreamIdle /\ BlockIdle /\ ContentIdle /\ MergeIdle
    /\ MessageIdle /\ RoundTripIdle
NextDecode == DecodeFrame
SpecDecode == InitDecode /\ [][NextDecode]_vars

\* Every sequence of MessageDeltas applied to a response Message.
InitMessage ==
    MessageInit /\ StreamIdle /\ BlockIdle /\ ContentIdle /\ MergeIdle
    /\ DecodeIdle /\ RoundTripIdle
NextMessage == CallApplyDelta
SpecMessage == InitMessage /\ [][NextMessage]_vars

\* Every constructed Event serialized and decoded again.
InitRoundTrip ==
    RoundTripInit /\ StreamIdle /\ BlockIdle /\ ContentIdle /\ MergeIdle
    /\ DecodeIdle /\ MessageIdle
NextRoundTrip == ToValue \/ FromValue
SpecRoundTrip == InitRoundTrip /\ [][NextRoundTrip]_vars

----------------------------------------------------------------------------
(* Vocabulary of the properties of the Event Stream.                       *)

InSeq(x, s) == \E i \in 1..Len(s) : s[i] = x

IsError(item) == ~item.ok

\* A server-reported error of a transient kind.
IsTransient(item) ==
    /\ ~item.ok
    /\ item.error.variant = "Anthropic"
    /\ item.error.error.variant \in {"Overloaded", "RateLimit"}

IsStreamError(item) == ~item.ok /\ item.error.variant = "Stream"

\* The transport items pulled so far.
Fed == SubSeq(transport, 1, pos)

\* s is a subsequence of t: the items of s occur in t in the same order.
RECURSIVE IsSubsequence(_, _)
IsSubsequence(s, t) ==
    IF s = <<>> THEN TRUE
    ELSE IF t = <<>> THEN FALSE
    ELSE IF Head(s) = Head(t) THEN IsSubsequence(Tail(s), Tail(t))
    ELSE IsSubsequence(s, Tail(t))

\* The wire document of a frame is an error envelope with a well-formed
\* error object of a known kind.
HasErrorEnvelope(item) ==
    /\ item.ok
    /\ Has(item.value.data, "error")
    /\ DeserializeAnthropicError(item.value.data.error).ok

HasEventShape(item) == item.ok /\ DeserializeEvent(item.value.data).ok

\* The wire document carries an error object {type, message} whose type is
\* none of the kinds the client names.
HasUnrecognisedErrorKind(item) ==
    /\ item.ok
    /\ ~HasEventShape(item)
    /\ Has(item.value.data, "error")
    /\ HasAll(item.value.data.error, {"type", "message"})
    /\ item.value.data.error.type \notin DOMAIN ErrorTagVariant

\* The wire document is a text_delta content_block_delta frame.
IsTextDeltaFrame(item) ==
    /\ item.ok
    /\ HasAll(item.value.data, {"type", "index", "delta"})
    /\ item.value.data.type = "content_block_delta"
    /\ HasAll(item.value.data.delta, {"type", "text"})
    /\ item.value.data.delta.type = "text_delta"

\* The wire document is a server error frame of a transient kind.
IsTransientFrame(item) ==
    /\ item.ok
    /\ ~HasEventShape(item)
    /\ Has(item.value.data, "error")
    /\ HasAll(item.value.data.error, {"type", "message"})
    /\ item.value.data.error.type \in {"overloaded_error", "rate_limit_error"}

\* The text payloads of the text_delta frames of a transcript, in order.
RECURSIVE TextPayloads(_)
TextPayloads(frames) ==
    IF frames = <<>> THEN <<>>
    ELSE IF IsTextDeltaFrame(Head(frames))
    THEN <<Ok(Head(frames).value.data.delta.text)>> \o TextPayloads(Tail(frames))
    ELSE TextPayloads(Tail(frames))

----------------------------------------------------------------------------
\* C1 (as claimed): every error item that is not a transient server error
\* and is fed to filter_rate_limit(), deltas() or text() appears in that
\* view's output.
C1_ViewsForwardErrors ==
    \A i \in 1..Len(raw) :
        (IsError(raw[i]) /\ ~IsTransient(raw[i]))
            => /\ InSeq(raw[i], vFilter)
               /\ InSeq(raw[i], vDeltas)
               /\ InSeq(raw[i], vText)

C7_UnrecognisedKindIsServerError ==
    \A i \in 1..Len(raw) :
        HasUnrecognisedErrorKind(transport[i])
            => /\ IsError(raw[i])
               /\ raw[i].error.variant = "Anthropic"
               /\ ~IsTransient(raw[i])
               /\ InSeq(raw[i], vFilter)

\* C8: the output of filter_rate_limit is its input with exactly the
\* Err(Error::Anthropic) items of kind RateLimit or Overloaded deleted;
\* every other item is forwarded unchanged and in the same order.
C8_FilterDeletesExactlyTransient ==
    vFilter = SelectSeq(raw, LAMBDA item : ~IsTransient(item))

C8_Witness ==
    /\ \E i, j, k \in 1..Len(raw) :
          /\ IsTransient(raw[i])
          /\ IsError(raw[j]) /\ ~IsTransient(raw[j])
          /\ raw[k].ok
    /\ Len(vFilter) = Len(raw) - 1

RawAsDeltas ==
    [i \in 1..Len(raw) |->
        IF raw[i].ok /\ raw[i].value.variant = "ContentBlockDelta"
        THEN Ok(raw[i].value.delta)
        ELSE raw[i]]

\* The raw items with each text ContentBlockDelta replaced by its text.
RawAsText ==
    [i \in 1..Len(raw) |->
        IF /\ raw[i].ok
           /\ raw[i].value.variant = "ContentBlockDelta"
           /\ raw[i].value.delta.variant = "Text"
        THEN Ok(raw[i].value.delta.text)
        ELSE [forwarded |-> FALSE]]

\* C10: the Stream yields exactly one item per transport frame, in arrival
\* order, the i-th item being the decode result of the i-th frame alone;
\* the views never reorder the items they forward.
C10_OneItemPerFrameInOrder ==
    /\ Len(raw) = pos
    /\ \A i \in 1..pos : raw[i] = StreamMap(transport[i])
    /\ IsSubsequence(vFilter, raw)
    /\ IsSubsequence(vDeltas, RawAsDeltas)
    /\ IsSubsequence(vText, RawAsText)
    /\ IsSubsequence(vFilterText, RawAsText)

C10_Witness ==
    /\ ended
    /\ Len(raw) = MaxFrames
    /\ \E i, j \in 1..Len(raw) : i < j /\ raw[i] # raw[j]
    /\ Len(vText) >= 2

----------------------------------------------------------------------------
(* Properties of message assembly (SpecContent).                           *)

\* The last event folded was a content delta addressed to a block index
\* that was never started, or that was already stopped.
DeltaToUnstartedOrStopped ==
    /\ lastEvent.variant = "ContentBlockDelta"
    /\ \/ lastEvent.index \notin started
       \/ lastEvent.index \in stopped

\* C3 (as claimed): a content delta for a block index with no started
\* block, or for a stopped block, is reported as an error that identifies
\* the offending index; it is never applied and never ignored.
C3_DeltaToBadIndexIsReported ==
    DeltaToUnstartedOrStopped
        => /\ ~contentResult.ok
           /\ ~IsPanic(contentResult)
           /\ contentResult.error.variant = "OutOfBounds"
           /\ contentResult.error.error.index = lastEvent.index

\* C4 (as claimed): Content::push_delta returns Ok(()) or a DeltaError for
\* every Content and every Delta; it never panics.
C4_PushDeltaNeverPanics ==
    lastEvent.variant = "ContentBlockDelta" => ~IsPanic(contentResult)

----------------------------------------------------------------------------
(* Properties of Block::merge_deltas (SpecBlock).                          *)

\* The payloads of a sequence of Json deltas, concatenated in order.
RECURSIVE ConcatJson(_)
ConcatJson(deltas) ==
    IF deltas = <<>> THEN <<>>
    ELSE Head(deltas).partial_json \o ConcatJson(Tail(deltas))

AllJson(deltas) == \A i \in 1..Len(deltas) : deltas[i].variant = "Json"

\* C5 (as claimed): Json fragments applied to a ToolUse block one call per
\* fragment, in arrival order, all succeed and leave the input equal to the
\* JSON parsed from the concatenation of the fragments applied.
C5_FragmentsOnePerCall ==
    (/\ block.variant = "ToolUse"
     /\ nCalls > 0
     /\ allSingle
     /\ ParseJson(fragments).ok)
        => /\ blockResult.ok
           /\ block.input = ParseJson(fragments).value

\* C5 (amended): Json fragments applied to a ToolUse block in one call of
\* merge_deltas, as one sequence in arrival order, succeed when their
\* concatenation is valid JSON and leave the input equal to the JSON parsed
\* from the concatenation of the fragments of that call.
C5_FragmentsInOneCall ==
    (/\ nCalls > 0
     /\ prevBlock.variant = "ToolUse"
     /\ lastDeltas # <<>>
     /\ AllJson(lastDeltas)
     /\ ParseJson(ConcatJson(lastDeltas)).ok)
        => /\ blockResult.ok
           /\ block.input = ParseJson(ConcatJson(lastDeltas)).value

C5_Witness ==
    /\ nCalls > 0
    /\ prevBlock = BlockToolUse(JsonObject(<<>>))
    /\ lastDeltas = <<DeltaJson(<<"{", "\"key\"", ":">>), DeltaJson(<<"\"value\"", "}">>)>>
    /\ blockResult.ok
    /\ block.input = JsonObject(<<[key |-> "\"key\"", value |-> JsonString("\"value\"")]>>)

----------------------------------------------------------------------------
(* Further properties of the Event Stream (Spec).                          *)

\* The wire document decodes neither as an Event nor as an error envelope.
MatchesNeither(item) ==
    item.ok /\ ~HasEventShape(item) /\ ~HasErrorEnvelope(item)

\* C11: a frame whose data matches neither the error envelope nor any Event
\* shape produces exactly one Err(Error::Parse) item, at the frame's own
\* position, that retains the original frame; the frame is not skipped and
\* does not end the stream: the frames after it are still pulled, decoded
\* and yielded in order.
C11_MalformedFrameYieldsParse ==
    /\ Len(raw) = pos
    /\ \A i \in 1..Len(raw) :
          MatchesNeither(transport[i])
              => /\ raw[i] = Err(ErrorParse(transport[i].value))
                 /\ \A j \in (i + 1)..Len(raw) : raw[j] = StreamMap(transport[j])
                 /\ (ended => Len(raw) = Len(transport))
                 /\ (~ended /\ pos < Len(transport) => ENABLED PollNext)

C11_Witness ==
    /\ ended
    /\ \E i, j \in 1..Len(raw) :
          /\ i < j
          /\ MatchesNeither(transport[i])
          /\ raw[i] = Err(ErrorParse(transport[i].value))
          /\ raw[j].ok

----------------------------------------------------------------------------
(* Properties of the frame decoder (SpecDecode).                           *)

\* The error kinds of the wire protocol, by retry class.
TransientKinds == {"overloaded_error", "rate_limit_error"}
NonTransientKinds ==
    {"invalid_request_error", "authentication_error", "permission_error",
     "not_found_error", "request_too_large", "api_error"}

\* The frame {"error":{"type":kind,"message":...}}, with or without the
\* outer "type":"error".
IsErrorFrameOfKind(item, kind) ==
    item \in {FrameBareError(kind), FrameError(kind)}

\* C12: decoding an error frame of kind overloaded_error or rate_limit_error
\* yields a server error item that filter_rate_limit drops; decoding one of
\* kind invalid_request_error, authentication_error, permission_error,
\* not_found_error, request_too_large or api_error yields a server error
\* item that filter_rate_limit forwards unchanged.
C12_ErrorKindsClassified ==
    decoded.some =>
        /\ \A kind \in TransientKinds :
              IsErrorFrameOfKind(wire, kind)
                  => /\ ~decoded.value.ok
                     /\ decoded.value.error.variant = "Anthropic"
                     /\ decoded.value.error.event = wire.value
                     /\ kept = None
        /\ \A kind \in NonTransientKinds :
              IsErrorFrameOfKind(wire, kind)
                  => /\ ~decoded.value.ok
                     /\ decoded.value.error.variant = "Anthropic"
                     /\ decoded.value.error.event = wire.value
                     /\ kept = Some(decoded.value)

C12_Witness ==
    /\ decoded.some
    /\ wire = FrameBareError("overloaded_error")
    /\ decoded.value.error.error.variant = "Overloaded"
    /\ kept = None

----------------------------------------------------------------------------
(* Properties of Delta::merge (SpecMerge).                                 *)

SameVariant(deltas) ==
    \A i \in 1..Len(deltas) : deltas[i].variant = deltas[1].variant

\* The payload of a delta, whichever its variant.
Payload(delta) ==
    IF delta.variant = "Text" THEN delta.text ELSE delta.partial_json

\* The payloads of a delta sequence, concatenated in sequence order.
RECURSIVE ConcatPayloads(_)
ConcatPayloads(deltas) ==
    IF deltas = <<>> THEN <<>>
    ELSE Payload(Head(deltas)) \o ConcatPayloads(Tail(deltas))

\* The right-nested merge d1.merge(d2.merge(... dn)) of a non-empty sequence.
RECURSIVE RightNestedMerge(_)
RightNestedMerge(deltas) ==
    IF Len(deltas) = 1 THEN Ok(deltas[1])
    ELSE LET r == RightNestedMerge(Tail(deltas))
         IN  IF r.ok THEN DeltaMerge(Head(deltas), r.value) ELSE r

\* C13: left-folding a non-empty sequence of deltas that are all Text (or
\* all Json) with merge succeeds and yields a delta of that variant whose
\* payload is the concatenation of the input payloads in sequence order;
\* the left fold equals the right-nested merge (merge is associative on
\* same-variant deltas).
C13_MergeIsOrderedConcatenation ==
    (mInputs # <<>> /\ SameVariant(mInputs))
        => /\ mResult.ok
           /\ mResult.value.variant = mInputs[1].variant
           /\ Payload(mResult.value) = ConcatPayloads(mInputs)
           /\ mResult = RightNestedMerge(mInputs)

C13_Witness ==
    /\ Len(mInputs) = 3
    /\ SameVariant(mInputs)
    /\ mInputs[1] # mInputs[2]
    /\ mResult = Ok(DeltaJson(<<"{", "\"key\"", ":", "\"value\"", "}", "{", "}">>))

\* The name Delta::merge gives the variant of a delta.
DeltaVariantName(delta) ==
    IF delta.variant = "Text" THEN "Delta::Text" ELSE "Delta::Json"

\* The first position of a sequence whose delta is not of the variant of
\* the first delta (0 when there is none).
FirstConflict(deltas) ==
    IF SameVariant(deltas) THEN 0
    ELSE CHOOSE k \in 1..Len(deltas) :
            /\ deltas[k].variant # deltas[1].variant
            /\ \A j \in 1..(k - 1) : deltas[j].variant = deltas[1].variant

\* C14: merging deltas of different variants is an error value, never a
\* panic: the left fold over a mixed sequence returns
\* Err(ContentMismatch{from, to}) for the first conflicting pair, `from`
\* being the first delta of the other variant, unmodified, and `to` naming
\* the variant of the accumulated delta ("Delta::Text" or "Delta::Json").
C14_MismatchIsErrorValue ==
    (mInputs # <<>> /\ ~SameVariant(mInputs))
        => /\ ~mResult.ok
           /\ ~IsPanic(mResult)
           /\ mResult.error.from = mInputs[FirstConflict(mInputs)]
           /\ mResult.error.to = DeltaVariantName(mInputs[1])
           /\ FirstConflict(mInputs) = Len(mInputs)

C14_Witness ==
    /\ Len(mInputs) = 3
    /\ mInputs[1].variant = "Text"
    /\ mInputs[2].variant = "Text"
    /\ mInputs[3].variant = "Json"
    /\ mResult = Err(ContentMismatch(mInputs[3], "Delta::Text"))

----------------------------------------------------------------------------
(* Further properties of Block::merge_deltas (SpecBlock).                  *)

AllText(deltas) == \A i \in 1..Len(deltas) : deltas[i].variant = "Text"

\* s is a prefix of t.
IsPrefix(s, t) == Len(s) <= Len(t) /\ SubSeq(t, 1, Len(s)) = s

\* C15: after merge_deltas(d1..dn) with every di a Delta::Text on a
\* Block::Text holding t, the call has succeeded and the block's text is t
\* followed by the payloads of d1..dn in order, nothing else of the block
\* having changed; no call ever overwrites or reorders the text a Text block
\* already holds.
C15_TextDeltasAppend ==
    /\ (/\ nCalls > 0
        /\ prevBlock.variant = "Text"
        /\ lastDeltas # <<>>
        /\ AllText(lastDeltas))
          => /\ blockResult = Ok(Unit)
             /\ block = [prevBlock EXCEPT
                            !.text = prevBlock.text \o ConcatPayloads(lastDeltas)]
    /\ prevBlock.variant = "Text"
          => block.variant = "Text" /\ IsPrefix(prevBlock.text, block.text)

C15_Witness ==
    /\ nCalls > 0
    /\ prevBlock = BlockText(<<"Hello, world!">>)
    /\ lastDeltas = <<DeltaText(<<"Certainly! I">>), DeltaText(<<" can">>)>>
    /\ block = BlockText(<<"Hello, world!", "Certainly! I", " can">>)

\* The name merge_deltas gives the variant of a block.
BlockVariantName(b) ==
    CASE b.variant = "Text" -> "Block::Text"
      [] b.variant = "ToolUse" -> "Block::ToolUse"
      [] b.variant = "ToolResult" -> "Block::ToolResult"
      [] b.variant = "Image" -> "Block::Image"

\* The deltas are of one variant and that variant does not fit the block:
\* any pairing other than Text onto Text and Json onto ToolUse.
IsMismatchedPairing(b, deltas) ==
    /\ deltas # <<>>
    /\ SameVariant(deltas)
    /\ ~(b.variant = "Text" /\ deltas[1].variant = "Text")
    /\ ~(b.variant = "ToolUse" /\ deltas[1].variant = "Json")

\* C16: for a same-variant delta sequence whose variant does not fit the
\* block (Json onto Text, Text onto ToolUse, either onto Image or
\* ToolResult), merge_deltas returns DeltaError::ContentMismatch whose `to`
\* names the block's variant; it does not panic.
C16_MismatchedPairingIsContentMismatch ==
    (nCalls > 0 /\ IsMismatchedPairing(prevBlock, lastDeltas))
        => /\ ~blockResult.ok
           /\ ~IsPanic(blockResult)
           /\ blockResult.error.variant = "ContentMismatch"
           /\ blockResult.error.error.to = BlockVariantName(prevBlock)

C16_Witness ==
    /\ nCalls > 0
    /\ prevBlock = BlockImage
    /\ lastDeltas = <<DeltaJson(<<"{", "}">>)>>
    /\ blockResult = Err(DeltaErrorContentMismatch(
           ContentMismatch(DeltaJson(<<"{", "}">>), "Block::Image")))

\* C17: merge_deltas with an empty delta sequence returns Ok(()) and leaves
\* the block unchanged, whatever the block's variant.
C17_EmptyDeltasIsNoOp ==
    (nCalls > 0 /\ lastDeltas = <<>>)
        => /\ blockResult = Ok(Unit)
           /\ block = prevBlock

C17_Witness ==
    /\ nCalls = MaxCalls
    /\ lastDeltas = <<>>
    /\ prevBlock = BlockToolResult
    /\ block = BlockToolResult
    /\ blockResult = Ok(Unit)

----------------------------------------------------------------------------
(* Properties of the projections deltas() and text() (Spec).               *)

IsContentBlockDelta(item) ==
    item.ok /\ item.value.variant = "ContentBlockDelta"

IsTextContentBlockDelta(item) ==
    IsContentBlockDelta(item) /\ item.value.delta.variant = "Text"

IsJsonContentBlockDelta(item) ==
    IsContentBlockDelta(item) /\ item.value.delta.variant = "Json"

\* The `delta` payloads of the Ok(Event::ContentBlockDelta) items of a
\* sequence of Stream items, in order.
RECURSIVE DeltaPayloads(_)
DeltaPayloads(items) ==
    IF items = <<>> THEN <<>>
    ELSE IF IsContentBlockDelta(Head(items))
    THEN <<Ok(Head(items).value.delta)>> \o DeltaPayloads(Tail(items))
    ELSE DeltaPayloads(Tail(items))

\* The keys of a Delta: its variant and its one payload field.
DeltaKeys == {{"variant", "text"}, {"variant", "partial_json"}}

\* C18: deltas() yields exactly the `delta` payloads of the
\* Ok(Event::ContentBlockDelta) items of its input, in input order, each
\* without the event's index, and yields nothing for an item of any other
\* Event kind.
C18_DeltasProjection ==
    /\ vDeltas = DeltaPayloads(raw)
    /\ \A i \in 1..Len(vDeltas) :
          vDeltas[i].ok /\ DOMAIN vDeltas[i].value \in DeltaKeys
    /\ Len(vDeltas) =
          Cardinality({i \in 1..Len(raw) : IsContentBlockDelta(raw[i])})

C18_Witness ==
    /\ ended
    /\ \E i, j, k \in 1..Len(raw) :
          /\ i < j
          /\ IsJsonContentBlockDelta(raw[i]) /\ raw[i].value.index = 1
          /\ IsTextContentBlockDelta(raw[j]) /\ raw[j].value.index = 0
          /\ raw[k].ok /\ raw[k].value.variant = "ContentBlockStart"
          /\ vDeltas = <<Ok(raw[i].value.delta), Ok(raw[j].value.delta)>>

\* The text payloads of the Ok(Event::ContentBlockDelta) items whose delta
\* is a Delta::Text, in order.
RECURSIVE TextOfItems(_)
TextOfItems(items) ==
    IF items = <<>> THEN <<>>
    ELSE IF IsTextContentBlockDelta(Head(items))
    THEN <<Ok(Head(items).value.delta.text)>> \o TextOfItems(Tail(items))
    ELSE TextOfItems(Tail(items))

----------------------------------------------------------------------------
(* Further properties of the frame decoder (SpecDecode).                   *)

\* The wire document of the frame being decoded has the `type` tag and
\* every key of `keys`.
WireIs(tag, keys) ==
    /\ wire.ok
    /\ Has(wire.value.data, "type")
    /\ wire.value.data.type = tag
    /\ HasAll(wire.value.data, keys)

\* The wire document under `key` has the `type` tag and every key of `keys`.
WireFieldIs(key, tag, keys) ==
    /\ Has(wire.value.data[key], "type")
    /\ wire.value.data[key].type = tag
    /\ HasAll(wire.value.data[key], keys)

\* C20: the decoder maps each recognised `type` tag to its Event variant
\* with its fields: ping, message_start{message}, content_block_start{index,
\* content_block}, content_block_delta{index, delta}, content_block_stop
\* {index}, message_delta{delta}, message_stop; within content_block_delta,
\* delta type text_delta decodes to Delta::Text{text} and input_json_delta
\* to Delta::Json{partial_json}.
C20_TagsDecodeToVariants ==
    decoded.some =>
        LET doc == wire.value.data
            event == decoded.value.value
        IN  /\ WireIs("ping", {})
                => decoded.value.ok /\ event = [variant |-> "Ping"]
            /\ WireIs("message_stop", {})
                => decoded.value.ok /\ event = [variant |-> "MessageStop"]
            /\ (WireIs("message_start", {"message"})
                /\ HasAll(doc.message, {"id", "role", "content", "model", "usage"}))
                => /\ decoded.value.ok
                   /\ event.variant = "MessageStart"
                   /\ event.message.id = doc.message.id
                   /\ event.message.role = doc.message.role
                   /\ event.message.content = doc.message.content
                   /\ event.message.model = doc.message.model
                   /\ event.message.usage = doc.message.usage
            /\ (WireIs("content_block_start", {"index", "content_block"})
                /\ WireFieldIs("content_block", "text", {"text"}))
                => /\ decoded.value.ok
                   /\ event.variant = "ContentBlockStart"
                   /\ event.index = doc.index
                   /\ event.content_block.variant = "Text"
                   /\ event.content_block.text = doc.content_block.text
            /\ (WireIs("content_block_start", {"index", "content_block"})
                /\ WireFieldIs("content_block", "tool_use", {"id", "name", "input"}))
                => /\ decoded.value.ok
                   /\ event.variant = "ContentBlockStart"
                   /\ event.index = doc.index
                   /\ event.content_block.variant = "ToolUse"
                   /\ event.content_block.id = doc.content_block.id
                   /\ event.content_block.name = doc.content_block.name
                   /\ event.content_block.input = doc.content_block.input
            /\ (WireIs("content_block_delta", {"index", "delta"})
                /\ WireFieldIs("delta", "text_delta", {"text"}))
                => /\ decoded.value.ok
                   /\ event = [variant |-> "ContentBlockDelta", index |-> doc.index,
                               delta |-> [variant |-> "Text", text |-> doc.delta.text]]
            /\ (WireIs("content_block_delta", {"index", "delta"})
                /\ WireFieldIs("delta", "input_json_delta", {"partial_json"}))
                => /\ decoded.value.ok
                   /\ event = [variant |-> "ContentBlockDelta", index |-> doc.index,
                               delta |-> [variant |-> "Json",
                                          partial_json |-> doc.delta.partial_json]]
            /\ WireIs("content_block_stop", {"index"})
                => /\ decoded.value.ok
                   /\ event = [variant |-> "ContentBlockStop", index |-> doc.index]
            /\ (WireIs("message_delta", {"delta"})
                /\ HasAll(doc.delta, {"stop_reason", "usage"}))
                => /\ decoded.value.ok
                   /\ event.variant = "MessageDelta"
                   /\ event.delta.stop_reason = doc.delta.stop_reason
                   /\ event.delta.usage = doc.delta.usage

C20_Witness ==
    /\ decoded.some
    /\ wire = WireBlockDelta(0, [type |-> "text_delta", text |-> <<"Certainly! I">>])
    /\ decoded.value =
          Ok([variant |-> "ContentBlockDelta", index |-> 0,
              delta |-> DeltaText(<<"Certainly! I">>)])

----------------------------------------------------------------------------
(* Properties of the Content operations (SpecContent).                     *)

\* The blocks of a content, a SinglePart being its text as one Text block.
BlocksOf(c) ==
    IF c.variant = "SinglePart" THEN <<BlockText(c.text)>> ELSE c.parts

\* C21: Content::push(b) on SinglePart(t) yields MultiPart[Text(t), b] and
\* on MultiPart(bs) yields MultiPart(bs ++ [b]); in every case len() grows
\* by exactly 1 and the blocks present before keep their content and their
\* relative order.
C21_PushPromotesAndAppends ==
    lastEvent.variant = "ContentBlockStart"
        => /\ content.variant = "MultiPart"
           /\ ContentLen(content) = ContentLen(prevContent) + 1
           /\ content.parts = Append(BlocksOf(prevContent), lastEvent.content_block)
           /\ prevContent.variant = "SinglePart"
                => content = MultiPart(<<BlockText(prevContent.text),
                                         lastEvent.content_block>>)

C21_Witness ==
    /\ lastEvent.variant = "ContentBlockStart"
    /\ prevContent = SinglePart(<<"Hello, world!">>)
    /\ content = MultiPart(<<BlockText(<<"Hello, world!">>), BlockImage>>)
    /\ ContentLen(prevContent) = 1
    /\ ContentLen(content) = 2

\* C22: promotion is monotonic.  Once the content is MultiPart it is
\* MultiPart in every later state, whatever push, cache or push_delta does
\* and whether it succeeds or fails.
C22_NeverDemoted ==
    [][content.variant = "MultiPart" => content'.variant = "MultiPart"]_vars

C22_Witness ==
    /\ nEvents = MaxEvents
    /\ prevContent = MultiPart(<<BlockText(<<"Hello, world!">>)>>)
    /\ content = MultiPart(<<BlockText(<<"Hello, world!">>)>>)
    /\ lastEvent.variant = "ContentBlockDelta"
    /\ ~contentResult.ok

\* C26 (as claimed): Content::last returns the final block whenever the
\* content is non-empty (len() > 0) and returns None only when the content
\* is empty; a SinglePart, whose len() is 1, has a last block.
C26_LastIsFinalBlock ==
    /\ ContentLen(content) > 0
          => ContentLast(content) = Some(BlocksOf(content)[ContentLen(content)])
    /\ ~ContentLast(content).some => ContentLen(content) = 0

\* C29: push_delta always targets the final block.  On MultiPart content
\* only the final block can change, whatever the outcome; on SinglePart(t)
\* the content is promoted to MultiPart[Text(t)] and the delta applied to
\* that block: a Text delta d gives MultiPart[Text(t ++ d)], a Json delta
\* returns ContentMismatch and leaves MultiPart[Text(t)].
C29_PushDeltaTargetsFinalBlock ==
    lastEvent.variant = "ContentBlockDelta"
        => /\ prevContent.variant = "MultiPart"
                => /\ content.variant = "MultiPart"
                   /\ Len(content.parts) = Len(prevContent.parts)
                   /\ \A i \in 1..(Len(content.parts) - 1) :
                         content.parts[i] = prevContent.parts[i]
           /\ (prevContent.variant = "SinglePart" /\ lastEvent.delta.variant = "Text")
                => /\ contentResult = Ok(Unit)
                   /\ content = MultiPart(<<BlockText(prevContent.text
                                                     \o lastEvent.delta.text)>>)
           /\ (prevContent.variant = "SinglePart" /\ lastEvent.delta.variant = "Json")
                => /\ ~contentResult.ok
                   /\ ~IsPanic(contentResult)
                   /\ contentResult.error.variant = "ContentMismatch"
                   /\ content = MultiPart(<<BlockText(prevContent.text)>>)

C29_Witness ==
    /\ lastEvent.variant = "ContentBlockDelta"
    /\ prevContent.variant = "MultiPart"
    /\ Len(prevContent.parts) = 2
    /\ contentResult = Ok(Unit)
    /\ content.parts[1] = prevContent.parts[1]
    /\ content.parts[2] # prevContent.parts[2]

----------------------------------------------------------------------------
(* Properties of a failing or replacing Block::merge_deltas (SpecBlock).   *)

\* C27: Json deltas replace the input of a ToolUse block, they do not merge
\* into it.  After a successful call the input is the JSON parsed from the
\* concatenation of the fragments of that call alone, the previous input
\* is discarded and nothing else of the block changes; when that
\* concatenation is not valid JSON the call returns DeltaError::Parse and
\* the block, previous input included, is unchanged.
C27_JsonDeltasReplaceInput ==
    (/\ nCalls > 0
     /\ prevBlock.variant = "ToolUse"
     /\ lastDeltas # <<>>
     /\ AllJson(lastDeltas))
        => LET parsed == ParseJson(ConcatJson(lastDeltas))
           IN  IF parsed.ok
               THEN /\ blockResult = Ok(Unit)
                    /\ block = [prevBlock EXCEPT !.input = parsed.value]
               ELSE /\ ~blockResult.ok
                    /\ blockResult.error.variant = "Parse"
                    /\ block = prevBlock

C27_Witness ==
    /\ nCalls = 2
    /\ prevBlock.variant = "ToolUse"
    /\ prevBlock.input =
          JsonObject(<<[key |-> "\"key\"", value |-> JsonString("\"value\"")]>>)
    /\ lastDeltas = <<DeltaJson(<<"{", "}">>)>>
    /\ blockResult = Ok(Unit)
    /\ block.input = JsonObject(<<>>)

\* C28: merge_deltas is all-or-nothing.  Whenever it returns an error the
\* block is exactly as before the call; for a sequence of mixed variants
\* none of the leading deltas is applied and the error's `to` names the
\* variant of the accumulated Delta, not the block.
C28_MergeDeltasAllOrNothing ==
    /\ (nCalls > 0 /\ ~blockResult.ok) => block = prevBlock
    /\ (nCalls > 0 /\ lastDeltas # <<>> /\ ~SameVariant(lastDeltas))
          => /\ ~blockResult.ok
             /\ blockResult.error.variant = "ContentMismatch"
             /\ blockResult.error.error.to = DeltaVariantName(lastDeltas[1])
             /\ block = prevBlock

C28_Witness ==
    /\ nCalls > 0
    /\ prevBlock = BlockText(<<"Hello, world!">>)
    /\ lastDeltas = <<DeltaText(<<" can">>), DeltaJson(<<"{", "}">>)>>
    /\ blockResult = Err(DeltaErrorContentMismatch(
           ContentMismatch(DeltaJson(<<"{", "}">>), "Delta::Text")))
    /\ block = prevBlock

----------------------------------------------------------------------------
(* Properties of Message::apply_delta (SpecMessage).                       *)

\* C23: apply_delta changes only the metadata stop_reason, stop_sequence
\* and usage.  After any sequence of apply_delta calls the message's
\* content (every block and its text or input), role, id and model are
\* those the message had before the first call.
C23_ApplyDeltaTouchesOnlyMetadata ==
    /\ message.content = firstMessage.content
    /\ message.role = firstMessage.role
    /\ message.id = firstMessage.id
    /\ message.model = firstMessage.model
    /\ DOMAIN message = DOMAIN firstMessage

C23_Witness ==
    /\ Len(appliedDeltas) = MaxApplies
    /\ firstMessage.content = MultiPart(<<BlockText(<<"Hi! My name is Claude.">>)>>)
    /\ message.content = firstMessage.content
    /\ message.stop_reason # firstMessage.stop_reason
    /\ message.stop_sequence # firstMessage.stop_sequence
    /\ message.usage # firstMessage.usage

\* The usage of the last delta of a sequence that carried usage, or
\* `initial` when none did.
RECURSIVE LastUsage(_, _)
LastUsage(deltas, initial) ==
    IF deltas = <<>> THEN initial
    ELSE IF deltas[Len(deltas)].usage # "None" THEN deltas[Len(deltas)].usage
    ELSE LastUsage(SubSeq(deltas, 1, Len(deltas) - 1), initial)

\* C30: after any non-empty sequence of MessageDelta applications,
\* stop_reason and stop_sequence equal those of the last delta applied,
\* absent ones included (a later delta without a stop reason clears an
\* earlier one), and usage equals that of the last delta that carried
\* usage, or the initial usage if none did.
C30_StopFieldsOverwrittenUsageKept ==
    /\ appliedDeltas # <<>>
          => /\ message.stop_reason = appliedDeltas[Len(appliedDeltas)].stop_reason
             /\ message.stop_sequence = appliedDeltas[Len(appliedDeltas)].stop_sequence
    /\ message.usage = LastUsage(appliedDeltas, firstMessage.usage)

C30_Witness ==
    /\ appliedDeltas = <<MessageDelta("max_tokens", "sequence", "usage1"),
                         MessageDelta("None", "None", "None")>>
    /\ message.stop_reason = "None"
    /\ message.stop_sequence = "None"
    /\ message.usage = "usage1"

----------------------------------------------------------------------------
(* The transient-error filter applied twice (Spec).                        *)

\* C24: filter_rate_limit is idempotent.  Applied to the output of
\* filter_rate_limit it yields exactly the same items in the same order:
\* the second application removes nothing.
C24_FilterIsIdempotent ==
    vFilterTwice = vFilter

C24_Witness ==
    /\ ended
    /\ Len(vFilter) = 2
    /\ Len(raw) = 3
    /\ vFilterTwice = vFilter
    /\ \E i \in 1..Len(raw) :
          IsTransient(raw[i]) /\ raw[i].error.error.variant = "Overloaded"
    /\ \E i \in 1..Len(vFilter) : IsError(vFilter[i])

----------------------------------------------------------------------------
(* Properties of the Event encoding (SpecRoundTrip).                       *)

\* C25: Event encoding round-trips.  Serializing a constructed Event of any
\* of the seven variants to JSON and decoding the result yields an Event
\* equal to the original: same variant, same index, same delta variant and
\* payload.
C25_EventRoundTrips ==
    rtDecoded.some
        => /\ rtDecoded.value.ok
           /\ rtDecoded.value.value.variant = rtEvent.variant
           /\ rtDecoded.value.value = rtEvent

C25_Witness ==
    /\ rtDecoded.some
    /\ rtEvent = [variant |-> "ContentBlockDelta", index |-> 1,
                  delta |-> DeltaJson(<<"{", "\"key\"", ":">>)]
    /\ rtJson.value = [type |-> "content_block_delta", index |-> 1,
                       delta |-> [type |-> "input_json_delta",
                                  partial_json |-> <<"{", "\"key\"", ":">>]]
    /\ rtDecoded.value = Ok(rtEvent)

====
